---- MODULE Spec2Model ----
(***************************************************************************)
(* CHIP-8 interpreter (a-isaiahharvey/chip8-rust): the instruction codec   *)
(* (src/src/instruction.rs), the register file (src/src/register.rs) and   *)
(* the execution engine Chip8::step with reset and load_rom                *)
(* (src/src/cpu.rs).                                                       *)
(***************************************************************************)
EXTENDS Integers, Sequences, FiniteSets, TLC

VARIABLES
    stack,      \* Chip8.stack: Vec<u16>
    pc,         \* Chip8.pc: u16
    reg,        \* Chip8.reg: Registers [v, i, sp]
    delay,      \* Chip8.delay: u8
    tick,       \* Chip8.tick: Instant of the last delay tick (ms)
    memory,     \* Chip8.memory: [u8; 4096], as the map of its non-zero bytes
    paused,     \* Chip8.paused
    io,         \* Chip8IO [keystate, display] behind Chip8.io; the display
                \* is the set of the <<row, column>> cells that are true
    now,        \* the monotonic clock read by Instant::now() (ms)
    result,     \* what the last call of step returned
    calls,      \* the last calls made on the machine, newest first
    pre,        \* the machine as it was before the last call
    pre2,       \* the machine as it was before the call before that
    timer,      \* when the delay counter was last loaded and decremented
    lock,       \* the holder of the Mutex<Chip8IO>
    drawing,    \* execution thread: the Draw in progress under the lock
    polling,    \* presentation thread: the key pass in progress under the lock
    shown,      \* what the presentation thread last read of the display
    seen,       \* what the execution thread last read of the key state
    limiter,    \* the execution thread's rate controller (main.rs 20-36)
    mutex,      \* the holder of the Mutex<Chip8>
    tasks,      \* where each thread or task stands in its code
    word,       \* codec harness: the 16-bit word under conversion
    decoded,    \* codec harness: Instruction::try_from(word)
    encoded     \* codec harness: u16::from(decoded instruction)

vars == <<stack, pc, reg, delay, tick, memory, paused, io, now, result,
          calls, pre, pre2, timer, lock, drawing, polling, shown, seen,
          limiter, mutex, tasks, word, decoded, encoded>>

threadVars == <<lock, drawing, polling, shown, seen>>

driverVars == <<limiter, mutex, tasks>>

machineVars == <<stack, pc, reg, delay, tick, memory, paused, io, now, result,
                 calls, pre, pre2, timer, threadVars, driverVars>>

codecVars == <<word, decoded, encoded>>

(***************************************************************************)
(* Program constants.                                                      *)
(***************************************************************************)
SCREEN_HEIGHT == 32
SCREEN_WIDTH == 64
MemSize == 4096
ProgramStart == \h200
TickMillis == 16
FlagReg == 15
NumRegs == 16
NumKeys == 16

FONT ==
    << \hF0, \h90, \h90, \h90, \hF0,
       \h20, \h60, \h20, \h20, \h70,
       \hF0, \h10, \hF0, \h80, \hF0,
       \hF0, \h10, \hF0, \h10, \hF0,
       \h90, \h90, \hF0, \h10, \h10,
       \hF0, \h80, \hF0, \h10, \hF0,
       \hF0, \h80, \hF0, \h90, \hF0,
       \hF0, \h10, \h20, \h40, \h40,
       \hF0, \h90, \hF0, \h90, \hF0,
       \hF0, \h90, \hF0, \h10, \hF0,
       \hF0, \h90, \hF0, \h90, \h90,
       \hE0, \h90, \hE0, \h90, \hE0,
       \hF0, \h80, \h80, \h80, \hF0,
       \hE0, \h90, \h90, \h90, \hE0,
       \hF0, \h80, \hF0, \h80, \hF0,
       \hF0, \h80, \hF0, \h80, \h80 >>

(***************************************************************************)
(* Fixed-width integer arithmetic (u8, u16) and bitwise operators.         *)
(***************************************************************************)
U8 == 256
U16 == 65536

Pow2(k) ==
    CASE k = 0 -> 1 [] k = 1 -> 2 [] k = 2 -> 4 [] k = 3 -> 8
      [] k = 4 -> 16 [] k = 5 -> 32 [] k = 6 -> 64 [] k = 7 -> 128
      [] k = 8 -> 256 [] k = 9 -> 512 [] k = 10 -> 1024 [] k = 11 -> 2048
      [] k = 12 -> 4096 [] k = 13 -> 8192 [] k = 14 -> 16384 [] k = 15 -> 32768
      [] k = 16 -> 65536

\* bit k of a
Bit(a, k) == (a \div Pow2(k)) % 2

\* the bit positions of a u16
BitPositions == 0 .. 15

\* the number whose set bits are the positions in ks
BitVal(ks, k) == IF k \in ks THEN Pow2(k) ELSE 0
FromBits(ks) ==
    ((((BitVal(ks, 0) + BitVal(ks, 1)) + (BitVal(ks, 2) + BitVal(ks, 3)))
      + ((BitVal(ks, 4) + BitVal(ks, 5)) + (BitVal(ks, 6) + BitVal(ks, 7))))
     + (((BitVal(ks, 8) + BitVal(ks, 9)) + (BitVal(ks, 10) + BitVal(ks, 11)))
        + ((BitVal(ks, 12) + BitVal(ks, 13)) + (BitVal(ks, 14) + BitVal(ks, 15)))))

BitAnd(a, b) == FromBits({k \in BitPositions : Bit(a, k) = 1 /\ Bit(b, k) = 1})
BitOr(a, b) == FromBits({k \in BitPositions : Bit(a, k) = 1 \/ Bit(b, k) = 1})
BitXor(a, b) == FromBits({k \in BitPositions : Bit(a, k) # Bit(b, k)})

\* a << k on a width-w unsigned integer (bits shifted out are lost)
ShlW(a, k, w) == (a * Pow2(k)) % w
\* a >> k on an unsigned integer
ShrW(a, k) == a \div Pow2(k)

(***************************************************************************)
(* Instruction (instruction.rs): a tagged variant; every variant carries   *)
(* its operands under the names the engine binds them to.                  *)
(***************************************************************************)
I0(op) == [op |-> op]
IA(op, a) == [op |-> op, addr |-> a]
IXN(op, x, n) == [op |-> op, x |-> x, n |-> n]
IXY(op, x, y) == [op |-> op, x |-> x, y |-> y]
IX(op, x) == [op |-> op, x |-> x]
IDraw(x, y, n) == [op |-> "Draw", x |-> x, y |-> y, n |-> n]

Ok(i) == [ok |-> TRUE, instr |-> i]
InvalidInstruction(x) == [ok |-> FALSE, err |-> "Invalid Instruction", word |-> x]

addr(x) == BitAnd(x, \h0FFF)
imm(x) == BitAnd(x, \h00FF)
r1(x) == ShrW(BitAnd(x, \h0F00), 8)
\* the second register field left where it is in the word
r2_Unshifted(x) == BitAnd(x, \h00F0)

r2(x) == ShrW(BitAnd(x, \h00F0), 4)

\* impl TryFrom<u16> for Instruction
try_from(x) ==
    LET group == BitAnd(x, \hF000)
        lo4 == BitAnd(x, \h000F)
        lo8 == BitAnd(x, \h00FF)
    IN  CASE group = \h0000 ->
               (CASE x = \h00E0 -> Ok(I0("Clr"))
                  [] x = \h00EE -> Ok(I0("Rts"))
                  [] OTHER -> Ok(IA("Sys", addr(x))))
          [] group = \h1000 -> Ok(IA("Jump", addr(x)))
          [] group = \h2000 -> Ok(IA("Call", addr(x)))
          [] group = \h3000 -> Ok(IXN("Ske", r1(x), imm(x)))
          [] group = \h4000 -> Ok(IXN("Skne", r1(x), imm(x)))
          [] group = \h5000 ->
               (CASE lo4 = 0 -> Ok(IXY("Skre", r1(x), r2(x)))
                  [] OTHER -> InvalidInstruction(x))
          [] group = \h6000 -> Ok(IXN("Load", r1(x), imm(x)))
          [] group = \h7000 -> Ok(IXN("Add", r1(x), imm(x)))
          [] group = \h8000 ->
               (CASE lo4 = \h0 -> Ok(IXY("Move", r1(x), r2(x)))
                  [] lo4 = \h1 -> Ok(IXY("Or", r1(x), r2(x)))
                  [] lo4 = \h2 -> Ok(IXY("And", r1(x), r2(x)))
                  [] lo4 = \h3 -> Ok(IXY("Xor", r1(x), r2(x)))
                  [] lo4 = \h4 -> Ok(IXY("Addr", r1(x), r2(x)))
                  [] lo4 = \h5 -> Ok(IXY("Sub", r1(x), r2(x)))
                  [] lo4 = \h6 -> Ok(IXY("Shr", r1(x), r2(x)))
                  [] lo4 = \hE -> Ok(IXY("Shl", r1(x), r2(x)))
                  [] OTHER -> InvalidInstruction(x))
          [] group = \h9000 ->
               (CASE lo4 = 0 -> Ok(IXY("Skrne", r1(x), r2(x)))
                  [] OTHER -> InvalidInstruction(x))
          [] group = \hA000 -> Ok(IA("LoadI", addr(x)))
          [] group = \hB000 -> Ok(IA("JumpI", addr(x)))
          [] group = \hC000 -> Ok(IXN("Rand", r1(x), imm(x)))
          [] group = \hD000 -> Ok(IDraw(r1(x), r2(x), BitAnd(x, \h000F)))
          [] group = \hE000 ->
               (CASE lo8 = \h9E -> Ok(IX("Skpr", r1(x)))
                  [] lo8 = \hA1 -> Ok(IX("Skup", r1(x)))
                  [] OTHER -> InvalidInstruction(x))
          [] group = \hF000 ->
               (CASE lo8 = \h07 -> Ok(IX("Moved", r1(x)))
                  [] lo8 = \h0A -> Ok(IX("Keyd", r1(x)))
                  [] lo8 = \h15 -> Ok(IX("LoadD", r1(x)))
                  [] lo8 = \h18 -> Ok(IX("LoadS", r1(x)))
                  [] lo8 = \h1E -> Ok(IX("AddI", r1(x)))
                  [] lo8 = \h29 -> Ok(IX("Ldspr", r1(x)))
                  [] lo8 = \h33 -> Ok(IX("Bcd", r1(x)))
                  [] lo8 = \h55 -> Ok(IX("Stor", r1(x)))
                  [] lo8 = \h65 -> Ok(IX("Read", r1(x)))
                  [] OTHER -> InvalidInstruction(x))
          [] OTHER -> InvalidInstruction(x)

\* the operand fields as From<Instruction> for u16 packs them
EncR1(r) == BitAnd(\h0F00, ShlW(r, 8, U16))
EncR2(r) == BitAnd(\h00F0, r)
EncImm(v) == BitAnd(\h00FF, v)
EncXN(base, r, v) == BitOr(BitOr(base, EncR1(r)), EncImm(v))
EncXY(base, a, b) == BitOr(BitOr(base, EncR1(a)), EncR2(b))
EncX(base, r) == BitOr(base, EncR1(r))
EncA(base, a) == BitOr(base, BitAnd(a, \h0FFF))

\* impl From<Instruction> for u16
u16_from(instr) ==
    LET op == instr.op
    IN  CASE op = "Clr" -> \h00E0
          [] op = "Rts" -> \h00EE
          [] op = "Draw" ->
               BitOr(BitOr(BitOr(\hD000, BitAnd(ShlW(instr.x, 8, U16), \h0F00)),
                           BitAnd(ShlW(instr.y, 4, U16), \h00F0)),
                     BitAnd(instr.n, \h000F))
          [] op = "Sys" -> BitAnd(instr.addr, \h0FFF)
          [] op = "Jump" -> EncA(\h1000, instr.addr)
          [] op = "Call" -> EncA(\h2000, instr.addr)
          [] op = "LoadI" -> EncA(\hA000, instr.addr)
          [] op = "JumpI" -> EncA(\hB000, instr.addr)
          [] op = "Ske" -> EncXN(\h3000, instr.x, instr.n)
          [] op = "Skne" -> EncXN(\h4000, instr.x, instr.n)
          [] op = "Load" -> EncXN(\h6000, instr.x, instr.n)
          [] op = "Add" -> EncXN(\h7000, instr.x, instr.n)
          [] op = "Rand" -> EncXN(\hC000, instr.x, instr.n)
          [] op = "Skre" -> EncXY(\h5000, instr.x, instr.y)
          [] op = "Skrne" -> EncXY(\h9000, instr.x, instr.y)
          [] op = "Move" -> EncXY(\h8000, instr.x, instr.y)
          [] op = "Or" -> EncXY(\h8001, instr.x, instr.y)
          [] op = "And" -> EncXY(\h8002, instr.x, instr.y)
          [] op = "Xor" -> EncXY(\h8003, instr.x, instr.y)
          [] op = "Addr" -> EncXY(\h8004, instr.x, instr.y)
          [] op = "Sub" -> EncXY(\h8005, instr.x, instr.y)
          [] op = "Shr" -> EncXY(\h8006, instr.x, instr.y)
          [] op = "Shl" -> EncXY(\h800E, instr.x, instr.y)
          [] op = "Skpr" -> EncX(\hE09E, instr.x)
          [] op = "Skup" -> EncX(\hE0A1, instr.x)
          [] op = "Moved" -> EncX(\hF007, instr.x)
          [] op = "Keyd" -> EncX(\hF00A, instr.x)
          [] op = "LoadD" -> EncX(\hF015, instr.x)
          [] op = "LoadS" -> EncX(\hF018, instr.x)
          [] op = "AddI" -> EncX(\hF01E, instr.x)
          [] op = "Ldspr" -> EncX(\hF029, instr.x)
          [] op = "Bcd" -> EncX(\hF033, instr.x)
          [] op = "Stor" -> EncX(\hF055, instr.x)
          [] op = "Read" -> EncX(\hF065, instr.x)

(***************************************************************************)
(* Registers (register.rs), Chip8IO and Chip8 (cpu.rs).  A machine value m *)
(* is the record of the Chip8 fields together with the display it reaches  *)
(* through its io handle.                                                  *)
(***************************************************************************)
RegIdx == 0 .. (NumRegs - 1)

Registers_new == [v |-> [r \in RegIdx |-> 0], i |-> 0, sp |-> 0]

\* display: [[bool; SCREEN_WIDTH]; SCREEN_HEIGHT] is held as the set of its
\* true cells <<row, column>>; [[false; 64]; 32] is the empty set
BlankDisplay == {}
Pixel(display, r, c) == <<r, c>> \in display

Chip8IO_new ==
    [keystate |-> [k \in 0 .. (NumKeys - 1) |-> FALSE], display |-> BlankDisplay]

\* memory: [u8; 4096] is held as the map from the addresses of its non-zero
\* bytes to those bytes; every other address below MemSize holds 0
MemRead(mem, a) == IF a \in DOMAIN mem THEN mem[a] ELSE 0

\* memory[start..start + len].copy_from_slice(bytes)
CopyFromSlice(mem, start, bytes) ==
    LET covered == start .. (start + Len(bytes) - 1)
        val(a) == IF a \in covered THEN bytes[a - start + 1] ELSE mem[a]
    IN  [a \in {b \in (DOMAIN mem) \cup covered : val(b) # 0} |-> val(a)]

MemWrite(mem, a, byte) == CopyFromSlice(mem, a, <<byte>>)

\* memory = [0; 4096] with the font copied to its base
FontMemory == CopyFromSlice(<<>>, 0, FONT)

\* Chip8::new
Chip8_new(instruction_section, isPaused, t) ==
    [stack |-> <<>>,
     pc |-> ProgramStart,
     reg |-> Registers_new,
     delay |-> 0,
     tick |-> t,
     memory |-> CopyFromSlice(FontMemory, ProgramStart, instruction_section),
     paused |-> isPaused,
     display |-> BlankDisplay]

\* a reset that forgets to restore the program counter
reset_KeepsPc(m, t) ==
    [m EXCEPT !.reg = Registers_new,
              !.stack = <<>>,
              !.delay = 0,
              !.tick = t,
              !.memory = FontMemory,
              !.display = BlankDisplay]

\* Chip8::reset (the io handle is cleared with it: see Reset)
reset(m, t) ==
    [m EXCEPT !.reg = Registers_new,
              !.pc = ProgramStart,
              !.stack = <<>>,
              !.delay = 0,
              !.tick = t,
              !.memory = FontMemory,
              !.display = BlankDisplay]

\* Chip8::load_rom
load_rom(m, rom) ==
    [m EXCEPT !.memory = CopyFromSlice(m.memory, ProgramStart, rom)]

(***************************************************************************)
(* StepResult and the Result<StepResult, String> that step returns.  A     *)
(* panic (an index out of range, an arithmetic overflow under overflow     *)
(* checks, an empty random range) is the outcome "Panic".                  *)
(***************************************************************************)
Continue(b) == [kind |-> "Continue", redraw |-> b, err |-> ""]
Loop == [kind |-> "Loop", redraw |-> FALSE, err |-> ""]
End == [kind |-> "End", redraw |-> FALSE, err |-> ""]
Err(msg) == [kind |-> "Err", redraw |-> FALSE, err |-> msg]
Panic(msg) == [kind |-> "Panic", redraw |-> FALSE, err |-> msg]
NoResult == [kind |-> "None", redraw |-> FALSE, err |-> ""]

Out(m, res) == [m |-> m, res |-> res]

SetReg(m, x, val) == [m EXCEPT !.reg.v[x] = val]

\* Chip8::advance
advance(m, amount) ==
    Out([m EXCEPT !.pc = (m.pc + amount) % U16], Continue(FALSE))

\* Chip8::current_instruction: the big-endian word at memory[pc], memory[pc + 1]
FetchInRange(m) == m.pc + 1 < MemSize
FetchWord(m) == MemRead(m.memory, m.pc) * 256 + MemRead(m.memory, m.pc + 1)
current_instruction(m) == try_from(FetchWord(m))

(***************************************************************************)
(* The arms of the match in Chip8::step, one operator per instruction.     *)
(***************************************************************************)
V(m, x) == m.reg.v[x]

step_Move(m, x, y) == advance(SetReg(m, x, V(m, y)), 2)
step_Or(m, x, y) == advance(SetReg(m, x, BitOr(V(m, x), V(m, y))), 2)
step_And(m, x, y) == advance(SetReg(m, x, BitAnd(V(m, x), V(m, y))), 2)
step_Xor(m, x, y) == advance(SetReg(m, x, BitXor(V(m, x), V(m, y))), 2)

\* an add that wraps and always clears the flag
step_Addr_NoCarry(m, x, y) ==
    advance(SetReg(SetReg(m, x, (V(m, x) + V(m, y)) % U8), FlagReg, 0), 2)

\* checked_add: Some(val) stores val and clears the flag; None stores the
\* wrapped sum and sets the flag.  The flag is written after register x.
step_Addr(m, x, y) ==
    LET sum == V(m, x) + V(m, y)
    IN  IF sum < U8
        THEN advance(SetReg(SetReg(m, x, sum), FlagReg, 0), 2)
        ELSE advance(SetReg(SetReg(m, x, sum % U8), FlagReg, 1), 2)

\* a subtraction that reports the absence of a borrow in the flag register
step_Sub_BorrowFlag(m, x, y) ==
    advance(SetReg(SetReg(m, x, (V(m, x) - V(m, y)) % U8),
                   FlagReg, IF V(m, x) >= V(m, y) THEN 1 ELSE 0), 2)

\* wrapping_sub; no flag is written
step_Sub(m, x, y) == advance(SetReg(m, x, (V(m, x) - V(m, y)) % U8), 2)

\* the single-register shift: register x is shifted in place
step_Shr_SingleRegister(m, x, y) ==
    LET m1 == SetReg(m, FlagReg, BitAnd(V(m, x), 1))
        m2 == SetReg(m1, x, ShrW(V(m1, x), 1))
    IN  advance(m2, 2)

step_Shr(m, x, y) ==
    LET m1 == SetReg(m, FlagReg, BitAnd(V(m, y), 1))
        m2 == SetReg(m1, y, ShrW(V(m1, x), 1))
    IN  advance(m2, 2)

step_Shl(m, x, y) ==
    LET m1 == SetReg(m, FlagReg, BitAnd(V(m, y), \hE0))
        m2 == SetReg(m1, y, ShlW(V(m1, x), 1, U8))
    IN  advance(m2, 2)

step_Load(m, x, n) == advance(SetReg(m, x, n), 2)
step_Add(m, x, n) == advance(SetReg(m, x, (V(m, x) + n) % U8), 2)

\* a call that pushes the return address before it looks for a self-loop
step_Call_PushFirst(m, a) ==
    IF a = m.pc
    THEN Out([m EXCEPT !.stack = Append(m.stack, m.pc)], Loop)
    ELSE Out([m EXCEPT !.stack = Append(m.stack, m.pc), !.pc = a], Continue(FALSE))

step_Call(m, a) ==
    IF a = m.pc
    THEN Out(m, Loop)
    ELSE Out([m EXCEPT !.stack = Append(m.stack, m.pc), !.pc = a], Continue(FALSE))

\* a return that does nothing on an empty stack
step_Rts_SilentNoOp(m) ==
    IF Len(m.stack) > 0
    THEN advance([m EXCEPT !.pc = m.stack[Len(m.stack)],
                           !.stack = SubSeq(m.stack, 1, Len(m.stack) - 1)], 2)
    ELSE advance(m, 2)

\* a return that reads the top of the stack and leaves it there
step_Rts_Peek(m) ==
    IF Len(m.stack) > 0
    THEN advance([m EXCEPT !.pc = m.stack[Len(m.stack)]], 2)
    ELSE Out(m, Err("Return from empty stack"))

step_Rts(m) ==
    IF Len(m.stack) > 0
    THEN advance([m EXCEPT !.pc = m.stack[Len(m.stack)],
                           !.stack = SubSeq(m.stack, 1, Len(m.stack) - 1)], 2)
    ELSE Out(m, Err("Return from empty stack"))

step_Jump(m, ofs) ==
    LET next_pc == BitOr(BitAnd(m.pc, \hF000), BitAnd(ofs, \h0FFF))
    IN  IF next_pc = m.pc
        THEN Out(m, Loop)
        ELSE Out([m EXCEPT !.pc = next_pc], Continue(FALSE))

step_JumpI(m, a) ==
    LET next_pc == a + V(m, 0)
    IN  IF next_pc = m.pc
        THEN Out(m, Loop)
        ELSE Out([m EXCEPT !.pc = next_pc], Continue(FALSE))

step_Ske(m, x, n) == IF V(m, x) = n THEN advance(m, 4) ELSE advance(m, 2)
step_Skne(m, x, n) == IF V(m, x) # n THEN advance(m, 4) ELSE advance(m, 2)
step_Skre(m, x, y) == IF V(m, x) # V(m, y) THEN advance(m, 4) ELSE advance(m, 2)
step_Skrne(m, x, y) == IF V(m, x) # V(m, y) THEN advance(m, 4) ELSE advance(m, 2)

\* for r in 0..=x { memory[i] = reg[r]; i += 1 }: the index panics once i
\* leaves the memory, with the earlier iterations' writes done
RECURSIVE StorLoop(_, _, _)
StorLoop(m, r, x) ==
    IF r > x THEN advance(m, 2)
    ELSE IF m.reg.i >= MemSize THEN Out(m, Panic("index out of bounds"))
    ELSE StorLoop([m EXCEPT !.memory = MemWrite(m.memory, m.reg.i, V(m, r)),
                            !.reg.i = m.reg.i + 1], r + 1, x)

step_Stor(m, x) == StorLoop(m, 0, x)

RECURSIVE ReadLoop(_, _, _)
ReadLoop(m, r, x) ==
    IF r > x THEN advance(m, 2)
    ELSE IF m.reg.i >= MemSize THEN Out(m, Panic("index out of bounds"))
    ELSE ReadLoop([m EXCEPT !.reg.v[r] = MemRead(m.memory, m.reg.i),
                            !.reg.i = m.reg.i + 1], r + 1, x)

step_Read(m, x) == ReadLoop(m, 0, x)

\* keystate.get(keyidx).unwrap_or(&false)
KeyPressed(keystate, keyidx) ==
    IF keyidx \in DOMAIN keystate THEN keystate[keyidx] ELSE FALSE

step_Skpr(m, keystate, x) ==
    IF KeyPressed(keystate, V(m, x)) THEN advance(m, 4) ELSE advance(m, 2)

step_Skup(m, keystate, x) ==
    IF ~KeyPressed(keystate, V(m, x)) THEN advance(m, 4) ELSE advance(m, 2)

\* a wait-for-key that moves on when no key is pressed
step_Keyd_NoWait(m, keystate, x) ==
    LET down == {k \in DOMAIN keystate : keystate[k]}
    IN  IF down = {}
        THEN Out(advance(m, 2).m, Continue(FALSE))
        ELSE LET key == CHOOSE k \in down : \A j \in down : k <= j
             IN  Out(advance(SetReg(m, x, key), 2).m, Continue(FALSE))

\* the first pressed key in index order, if any
step_Keyd(m, keystate, x) ==
    LET down == {k \in DOMAIN keystate : keystate[k]}
    IN  IF down = {}
        THEN Out(m, Continue(FALSE))
        ELSE LET key == CHOOSE k \in down : \A j \in down : k <= j
             IN  Out(advance(SetReg(m, x, key), 2).m, Continue(FALSE))

step_LoadS(m, x) == advance(m, 2)
step_Moved(m, x) == advance(SetReg(m, x, m.delay), 2)
step_LoadD(m, x) == advance([m EXCEPT !.delay = V(m, x)], 2)

\* reg.i += reg[x] as u16: past u16::MAX the build either panics (overflow
\* checks) or wraps; both outcomes are possible
step_AddI(m, x) ==
    LET sum == m.reg.i + V(m, x)
    IN  IF sum < U16
        THEN {advance([m EXCEPT !.reg.i = sum], 2)}
        ELSE {Out(m, Panic("attempt to add with overflow")),
              advance([m EXCEPT !.reg.i = sum % U16], 2)}

step_LoadI(m, a) == advance([m EXCEPT !.reg.i = a], 2)

\* a clear that leaves the framebuffer alone
step_Clr_KeepsDisplay(m) == advance(m, 2)

step_Clr(m) == advance([m EXCEPT !.display = BlankDisplay], 2)

\* a sprite loader that takes any value for a glyph number
step_Ldspr_NoCheck(m, x) == advance([m EXCEPT !.reg.i = V(m, x) * 5], 2)

\* a sprite loader that writes the address register before it checks the value
step_Ldspr_StoreFirst(m, x) ==
    LET val == V(m, x)
        m1 == [m EXCEPT !.reg.i = val * 5]
    IN  IF val > 15 THEN Out(m1, Err("LDSPR > 15")) ELSE advance(m1, 2)

step_Ldspr(m, x) ==
    LET val == V(m, x)
    IN  IF val > 15
        THEN Out(m, Err("LDSPR > 15"))
        ELSE advance([m EXCEPT !.reg.i = val * 5], 2)

step_Bcd(m, x) ==
    LET hundreds == V(m, x) \div 100
        tens == (V(m, x) % 100) \div 10
        ones == V(m, x) % 10
        i == m.reg.i
    IN  IF i >= MemSize THEN Out(m, Panic("index out of bounds"))
        ELSE IF i + 1 >= MemSize
        THEN Out([m EXCEPT !.memory = MemWrite(m.memory, i, hundreds)],
                 Panic("index out of bounds"))
        ELSE IF i + 2 >= MemSize
        THEN Out([m EXCEPT !.memory = CopyFromSlice(m.memory, i, <<hundreds, tens>>)],
                 Panic("index out of bounds"))
        ELSE advance([m EXCEPT !.memory =
                          CopyFromSlice(m.memory, i, <<hundreds, tens, ones>>)], 2)

\* rng.gen_range(0..n): any value below n; an empty range panics
step_Rand(m, x, n) ==
    IF n = 0
    THEN {Out(m, Panic("cannot sample empty range"))}
    ELSE {advance(SetReg(m, x, r), 2) : r \in 0 .. (n - 1)}

\* a sys-call that halts whatever its operand
step_Sys_AlwaysEnd(m, a) == Out(m, End)

step_Sys(m, a) == IF a = 0 THEN Out(m, End) ELSE Out(m, Err("SYS"))

(***************************************************************************)
(* Draw (cpu.rs 439-465).  The row is read from register y once, before    *)
(* the flag is cleared; the column is read from register x again for every *)
(* sprite byte, after the flag has been cleared and possibly set.          *)
(***************************************************************************)
\* bit = (byte & (1 << (7 - bitidx))) != 0
SpriteBit(byte, bitidx) == BitAnd(byte, ShlW(1, 7 - bitidx, U8)) # 0

\* the inner loop over bitidx in 0..8: the cells that the set bits of the byte
\* reach, eight different columns of one row (8 < SCREEN_WIDTH)
RowCells(byte, row, col) ==
    {<<row % SCREEN_HEIGHT, (col + bitidx) % SCREEN_WIDTH>> :
        bitidx \in {b \in 0 .. 7 : SpriteBit(byte, b)}}

\* cells that are ORed in, never cleared
OrCells(m, cells) == [m EXCEPT !.display = m.display \cup cells]

\* display[..][..] ^= bit on those cells
XorCells(m, cells) ==
    [m EXCEPT !.display =
        {c \in m.display \cup cells : ~(c \in m.display /\ c \in cells)}]

\* rows drawn without collision detection
RECURSIVE DrawRows_NoCollision(_, _, _, _, _, _)
DrawRows_NoCollision(m, x, memidx, row, k, n) ==
    IF k = n THEN m
    ELSE LET cells == RowCells(MemRead(m.memory, memidx + k), row, V(m, x))
         IN  IF cells = {}
             THEN DrawRows_NoCollision(m, x, memidx, row + 1, k + 1, n)
             ELSE DrawRows_NoCollision(XorCells(m, cells), x, memidx, row + 1, k + 1, n)

\* the outer loop over the bytes memory[memidx + k], k in 0..n: the flag is
\* set when a cell the byte reaches was true, and each cell is XORed once
RECURSIVE DrawRows(_, _, _, _, _, _)
DrawRows(m, x, memidx, row, k, n) ==
    IF k = n THEN m
    ELSE LET cells == RowCells(MemRead(m.memory, memidx + k), row, V(m, x))
         IN  IF cells \cap m.display # {}
             THEN DrawRows(XorCells(SetReg(m, FlagReg, 1), cells),
                           x, memidx, row + 1, k + 1, n)
             ELSE DrawRows(XorCells(m, cells), x, memidx, row + 1, k + 1, n)

step_Draw(m, x, y, n) ==
    LET row == V(m, y)
        memidx == m.reg.i
        m0 == SetReg(m, FlagReg, 0)
    IN  IF memidx + n > MemSize
        THEN Out(m0, Panic("range end index out of range"))
        ELSE Out(advance(DrawRows(m0, x, memidx, row, 0, n), 2).m, Continue(TRUE))

(***************************************************************************)
(* Chip8::step (cpu.rs 226-499): the set of outcomes [m, res] of one call  *)
(* on machine m, with the key state seen through the io handle and the     *)
(* clock reading t.                                                        *)
(***************************************************************************)
\* a delay tick that does not look at the clock
DelayTick_EveryStep(m, t) ==
    [m EXCEPT !.delay = IF m.delay > 0 THEN m.delay - 1 ELSE 0, !.tick = t]

\* the delay tick: more than 16 ms since the last one
DelayTick(m, t) ==
    IF t - m.tick > TickMillis
    THEN [m EXCEPT !.delay = IF m.delay > 0 THEN m.delay - 1 ELSE 0, !.tick = t]
    ELSE m

\* the match on the decoded instruction
Execute(m, keystate, ins) ==
    LET op == ins.op
    IN  CASE op = "Move" -> {step_Move(m, ins.x, ins.y)}
          [] op = "Or" -> {step_Or(m, ins.x, ins.y)}
          [] op = "And" -> {step_And(m, ins.x, ins.y)}
          [] op = "Xor" -> {step_Xor(m, ins.x, ins.y)}
          [] op = "Addr" -> {step_Addr(m, ins.x, ins.y)}
          [] op = "Sub" -> {step_Sub(m, ins.x, ins.y)}
          [] op = "Shr" -> {step_Shr(m, ins.x, ins.y)}
          [] op = "Shl" -> {step_Shl(m, ins.x, ins.y)}
          [] op = "Load" -> {step_Load(m, ins.x, ins.n)}
          [] op = "Add" -> {step_Add(m, ins.x, ins.n)}
          [] op = "Call" -> {step_Call(m, ins.addr)}
          [] op = "Rts" -> {step_Rts(m)}
          [] op = "Jump" -> {step_Jump(m, ins.addr)}
          [] op = "JumpI" -> {step_JumpI(m, ins.addr)}
          [] op = "Ske" -> {step_Ske(m, ins.x, ins.n)}
          [] op = "Skne" -> {step_Skne(m, ins.x, ins.n)}
          [] op = "Skre" -> {step_Skre(m, ins.x, ins.y)}
          [] op = "Skrne" -> {step_Skrne(m, ins.x, ins.y)}
          [] op = "Stor" -> {step_Stor(m, ins.x)}
          [] op = "Read" -> {step_Read(m, ins.x)}
          [] op = "Skpr" -> {step_Skpr(m, keystate, ins.x)}
          [] op = "Skup" -> {step_Skup(m, keystate, ins.x)}
          [] op = "Keyd" -> {step_Keyd(m, keystate, ins.x)}
          [] op = "LoadS" -> {step_LoadS(m, ins.x)}
          [] op = "Moved" -> {step_Moved(m, ins.x)}
          [] op = "LoadD" -> {step_LoadD(m, ins.x)}
          [] op = "AddI" -> step_AddI(m, ins.x)
          [] op = "LoadI" -> {step_LoadI(m, ins.addr)}
          [] op = "Draw" -> {step_Draw(m, ins.x, ins.y, ins.n)}
          [] op = "Clr" -> {step_Clr(m)}
          [] op = "Ldspr" -> {step_Ldspr(m, ins.x)}
          [] op = "Bcd" -> {step_Bcd(m, ins.x)}
          [] op = "Rand" -> step_Rand(m, ins.x, ins.n)
          [] op = "Sys" -> {step_Sys(m, ins.addr)}

\* a step that does not look at the paused flag
step_IgnoresPaused(m, keystate, t) ==
    LET m1 == DelayTick(m, t)
    IN  IF ~FetchInRange(m1)
        THEN {Out(m1, Panic("index out of bounds"))}
        ELSE LET d == current_instruction(m1)
             IN  IF d.ok
                 THEN Execute(m1, keystate, d.instr)
                 ELSE {Out(m1, Err(d.err))}

step(m, keystate, t) ==
    IF m.paused
    THEN {Out(m, Continue(FALSE))}
    ELSE LET m1 == DelayTick(m, t)
         IN  IF ~FetchInRange(m1)
             THEN {Out(m1, Panic("index out of bounds"))}
             ELSE LET d == current_instruction(m1)
                  IN  IF d.ok
                      THEN Execute(m1, keystate, d.instr)
                      ELSE {Out(m1, Err(d.err))}

(***************************************************************************)
(* The state machine.  Machine is the Chip8 value held in the variables.   *)
(***************************************************************************)
Machine ==
    [stack |-> stack, pc |-> pc, reg |-> reg, delay |-> delay, tick |-> tick,
     memory |-> memory, paused |-> paused, display |-> io.display]

\* what the history variables keep of a machine
Snapshot(m, keystate) ==
    [stack |-> m.stack, pc |-> m.pc, reg |-> m.reg, delay |-> m.delay,
     tick |-> m.tick, memory |-> m.memory, display |-> m.display,
     keystate |-> keystate]

\* the last three calls, newest first
Push(cs, c) == IF Len(cs) < 3 THEN <<c>> \o cs ELSE <<c, cs[1], cs[2]>>

StepCallRecord(m, t) ==
    [op |-> "step", at |-> t,
     word |-> IF ~m.paused /\ FetchInRange(m) THEN FetchWord(m) ELSE -1]
ResetCallRecord == [op |-> "reset"]
LoadRomCallRecord(rom) == [op |-> "load_rom", rom |-> rom]

SetMachine(m) ==
    /\ stack' = m.stack
    /\ pc' = m.pc
    /\ reg' = m.reg
    /\ delay' = m.delay
    /\ tick' = m.tick
    /\ memory' = m.memory
    /\ paused' = m.paused

\* the delay counter's history: when it was last loaded (by construction,
\* reset or LoadD) and with what, and the clock readings of its last two
\* decrements (-1: none)
TimerStart(t) == [loadAt |-> t, loadVal |-> 0, lastDec |-> -1, prevDec |-> -1]

\* the step of machine m at clock reading t decrements the delay counter
Decrements(m, t) == ~m.paused /\ t - m.tick > TickMillis /\ m.delay > 0

\* the step of machine m executes LoadD
ExecutesLoadD(m) ==
    /\ ~m.paused /\ FetchInRange(m)
    /\ current_instruction(m).ok
    /\ current_instruction(m).instr.op = "LoadD"

TimerAfterStep(tm, m, after, t) ==
    LET ticked == IF Decrements(m, t)
                  THEN [tm EXCEPT !.lastDec = t, !.prevDec = tm.lastDec]
                  ELSE tm
    IN  IF ExecutesLoadD(m)
        THEN [ticked EXCEPT !.loadAt = t, !.loadVal = after.delay]
        ELSE ticked

\* no thread holds a lock or is inside a Draw or a key pass; the execution
\* thread has not been spawned
ThreadsIdle ==
    /\ lock = "none"
    /\ drawing = <<>>
    /\ polling = <<>>
    /\ shown = <<>>
    /\ seen = <<>>
    /\ limiter = <<>>
    /\ mutex = "none"
    /\ tasks = <<>>

\* the deepest call stack a behaviour of the model grows
MaxStack == 3

\* one call of Chip8::step.  A panic inside step poisons the Mutex<Chip8>
\* that every caller goes through, so no call follows it.
StepEffect ==
    /\ result.kind # "Panic"
    /\ Len(stack) <= MaxStack
    /\ \E o \in step(Machine, io.keystate, now) :
          /\ SetMachine(o.m)
          /\ io' = [io EXCEPT !.display = o.m.display]
          /\ result' = o.res
          /\ timer' = TimerAfterStep(timer, Machine, o.m, now)
    /\ calls' = Push(calls, StepCallRecord(Machine, now))
    /\ pre' = Snapshot(Machine, io.keystate)
    /\ pre2' = pre
    /\ UNCHANGED <<now, codecVars>>

\* the call when no other thread is at work on the io surface
StepCall == StepEffect /\ UNCHANGED <<threadVars, driverVars>>

\* a driver loop that never leaves
DriverStep_NeverStops == StepCall

\* the execution thread of main.rs: step again only after a Continue
DriverStep ==
    /\ result.kind \in {"None", "Continue"}
    /\ StepCall

\* one call of Chip8::reset: the machine and the io surface are cleared
ResetEffect ==
    /\ result.kind # "Panic"
    /\ SetMachine(reset(Machine, now))
    /\ io' = Chip8IO_new
    /\ calls' = Push(calls, ResetCallRecord)
    /\ pre' = Snapshot(Machine, io.keystate)
    /\ pre2' = pre
    /\ timer' = [timer EXCEPT !.loadAt = now, !.loadVal = 0]
    /\ UNCHANGED <<now, result, codecVars>>

\* the call when no other thread is at work
Reset == ResetEffect /\ UNCHANGED <<threadVars, driverVars>>

(***************************************************************************)
(* Programs.  Words are assembled from the opcode table of instruction.rs. *)
(***************************************************************************)
OpXY(base, x, y) == base + x * 256 + y * 16
OpXN(base, x, n) == base + x * 256 + n
OpA(base, a) == base + a
OpDraw(x, y, n) == \hD000 + x * 256 + y * 16 + n

RECURSIVE Bytes(_)
Bytes(ws) ==
    IF ws = <<>> THEN <<>>
    ELSE <<ws[1] \div 256, ws[1] % 256>> \o Bytes(Tail(ws))

\* register indices and register values the programs use
RegSample == {0, 1, 15}
ValSample == {\h01, \h42, \hFF}

\* the two-register group: 8xy0..8xy6, 8xyE, 5xy0, 9xy0
AluBases ==
    {\h8000, \h8001, \h8002, \h8003, \h8004, \h8005, \h8006, \h800E, \h5000, \h9000}

AluRoms ==
    {Bytes(<<OpXN(\h6000, x, a), OpXN(\h6000, y, b), OpXY(base, x, y)>>) :
        <<x, y, a, b, base>> \in RegSample \X RegSample \X ValSample \X ValSample \X AluBases}

\* sprite heights and sprite addresses (the font, the program's own bytes)
SpriteHeights == {0, 1, 5, 15}
SpriteAddrs == {\h000, \h200}

\* what a program draws first: nothing, or the font glyph at address 5 from
\* the top-left corner (every register is still 0)
Backgrounds == {<<>>, <<OpA(\hA000, \h005), OpDraw(0, 0, 5)>>}

DrawRoms ==
    {Bytes(bg \o <<OpA(\hA000, ia), OpXN(\h6000, x, a), OpXN(\h6000, y, b),
                   OpDraw(x, y, n), OpDraw(x, y, n), OpDraw(x, y, n)>>) :
        <<bg, ia, x, y, a, b, n>> \in
            Backgrounds \X SpriteAddrs \X RegSample \X RegSample
                \X ValSample \X ValSample \X SpriteHeights}

\* jumps, calls and returns among the first program addresses
FlowWords ==
    {OpA(\h1000, \h200), OpA(\h1000, \h202), OpA(\h1000, \h204),
     OpA(\h2000, \h200), OpA(\h2000, \h202), OpA(\h2000, \h204),
     OpA(\hB000, \h200), OpA(\hB000, \h202),
     \h00EE, OpXN(\h6000, 0, 2)}

FlowRoms ==
    {Bytes(ws) : ws \in (FlowWords \X FlowWords \X FlowWords)
                            \cup (FlowWords \X FlowWords)
                            \cup {<<w>> : w \in FlowWords}}

\* ROMs loaded through the API
ApiRoms ==
    {Bytes(<<OpXN(\h6000, 3, \h42)>>),
     Bytes(<<OpXN(\h7000, 3, 1), OpXN(\h6000, 3, \h42)>>),
     Bytes(<<OpA(\h2000, \h202), OpXN(\h6000, 3, \h42)>>)}

\* one call of Chip8::load_rom
LoadRomEffect(rom) ==
    /\ result.kind # "Panic"
    /\ SetMachine(load_rom(Machine, rom))
    /\ calls' = Push(calls, LoadRomCallRecord(rom))
    /\ pre' = Snapshot(Machine, io.keystate)
    /\ pre2' = pre
    /\ UNCHANGED <<now, result, timer, codecVars>>

\* the call when no other thread is at work
LoadRom ==
    /\ \E rom \in ApiRoms : LoadRomEffect(rom)
    /\ UNCHANGED <<io, threadVars, driverVars>>

\* no word is under conversion
CodecIdle == word = -1 /\ decoded = <<>> /\ encoded = -1

\* a machine built by Chip8::new(rom, io, isPaused) on a fresh Chip8IO
Constructed(roms, isPaused) ==
    /\ now = 0
    /\ \E rom \in roms :
          LET m == Chip8_new(rom, isPaused, 0)
          IN  /\ stack = m.stack
              /\ pc = m.pc
              /\ reg = m.reg
              /\ delay = m.delay
              /\ tick = m.tick
              /\ memory = m.memory
              /\ paused = m.paused
              /\ pre = Snapshot(m, Chip8IO_new.keystate)
              /\ pre2 = Snapshot(m, Chip8IO_new.keystate)
    /\ io = Chip8IO_new
    /\ result = NoResult
    /\ calls = <<>>
    /\ timer = TimerStart(0)
    /\ ThreadsIdle
    /\ CodecIdle

\* the machine main.rs builds: Chip8::new(rom, io, false)
MachineInit(roms) == Constructed(roms, FALSE)

\* the key state in which exactly the keys of the set pressed are down
KeyState(pressed) == [k \in 0 .. (NumKeys - 1) |-> k \in pressed]

\* the sets of keys a polling pass finds down
KeySets == {{}, {0}, {3, 7}, {7, 15}}

\* one pass of App::update over the 16 keys, under the io lock
PollKeys ==
    /\ lock = "none"
    /\ \E pressed \in KeySets :
          /\ io.keystate # KeyState(pressed)
          /\ io' = [io EXCEPT !.keystate = KeyState(pressed)]
    /\ UNCHANGED <<stack, pc, reg, delay, tick, memory, paused, now, result,
                   calls, pre, pre2, timer, threadVars, codecVars, driverVars>>

\* wait-for-key programs: Load(x, 0x42), Keyd(x), Add(x, 1)
KeyRoms ==
    {Bytes(<<OpXN(\h6000, x, \h42), \hF00A + x * 256, OpXN(\h7000, x, 1)>>) :
        x \in RegSample}

Init == MachineInit(ApiRoms)
Next == StepCall \/ Reset \/ LoadRom
Spec == Init /\ [][Next]_vars

InitAlu == MachineInit(AluRoms)
SpecAlu == InitAlu /\ [][DriverStep]_vars

InitDraw == MachineInit(DrawRoms)
SpecDraw == InitDraw /\ [][DriverStep]_vars

InitFlow == MachineInit(FlowRoms)
SpecFlow == InitFlow /\ [][DriverStep]_vars

\* the wall clock moves on between two calls: less than a tick interval,
\* just more than one, several
TimeSteps == {16, 17, 50}

\* the last clock reading of a behaviour of the model
MaxTime == 70

Elapse ==
    /\ \E dt \in TimeSteps :
          /\ now + dt <= MaxTime
          /\ now' = now + dt
    /\ UNCHANGED <<stack, pc, reg, delay, tick, memory, paused, io, result,
                   calls, pre, pre2, timer, threadVars, codecVars, driverVars>>

\* 0x0nnn words other than Clr and Rts
SysWords == {\h0000, \h0001, \h00E1, \h00EF, \h0FFF}

\* delay programs: Load(0, d), LoadD(0), then the loop Moved(1), Jump 0x204 or
\* a sys-call
TimerRoms ==
    {Bytes(<<OpXN(\h6000, 0, d), \hF015, \hF107, OpA(\h1000, \h204)>>) : d \in {0, 1, 3}}
        \cup {Bytes(<<OpXN(\h6000, 0, 3), \hF015, w>>) : w \in SysWords}

SpecTimer == MachineInit(TimerRoms) /\ [][StepCall \/ Elapse]_vars

\* glyph programs: Load(x, v), Ldspr(x), Draw(x, x, 5), Clr, Clr
GlyphRoms ==
    {Bytes(<<OpXN(\h6000, x, v), \hF029 + x * 256, OpDraw(x, x, 5), \h00E0, \h00E0>>) :
        <<x, v>> \in {0, 1, 7, 15} \X {0, 1, 9, 15, 16, 200, 255}}

SpecGlyph == MachineInit(GlyphRoms) /\ [][DriverStep]_vars

\* a machine built paused, Chip8::new(rom, io, true), stepped while the clock
\* moves and the keys are polled
SpecPaused ==
    Constructed(ApiRoms, TRUE) /\ [][StepCall \/ Elapse \/ PollKeys]_vars

(***************************************************************************)
(* The two threads on the Mutex<Chip8IO>.  The execution thread (main.rs   *)
(* 74-86) takes the lock inside step: for the whole loop of Draw (cpu.rs   *)
(* 443-461), and for the one statement that reads the key state or clears  *)
(* the display.  The presentation thread (App::update) takes it for the    *)
(* whole pass over the 16 keys (app.rs 263-270) and for the one statement  *)
(* that copies the display (app.rs 176).  Draw is taken a sprite byte at a *)
(* time and the pass a key at a time, so that what keeps the other thread  *)
(* out is the lock alone.                                                  *)
(***************************************************************************)
\* a thread that ignores the lock
LockFree_Ignored(l) == TRUE

\* Mutex::lock returns only when nobody holds the lock
LockFree(l) == l = "none"

\* the instruction the execution thread is about to step, if there is one
NextInstr ==
    IF ~paused /\ FetchInRange(Machine) /\ current_instruction(Machine).ok
    THEN current_instruction(Machine).instr
    ELSE I0("None")

\* the instructions that take the io lock
LocksIo(ins) == ins.op \in {"Skpr", "Skup", "Keyd", "Clr", "Draw"}
ReadsKeys(ins) == ins.op \in {"Skpr", "Skup", "Keyd"}

\* a Draw whose sprite bytes are inside the memory
DrawsInRange(ins) == ins.op = "Draw" /\ reg.i + ins.n <= MemSize

\* the keys of the pass in progress that have been written
KeysWritten == IF polling = <<>> THEN 0 ELSE polling.key

\* step on any instruction but an in-range Draw: one statement under the lock
EngineStep ==
    /\ result.kind \in {"None", "Continue"}
    /\ drawing = <<>>
    /\ ~DrawsInRange(NextInstr)
    /\ LocksIo(NextInstr) => LockFree(lock)
    /\ StepEffect
    /\ seen' = IF ReadsKeys(NextInstr)
               THEN [keystate |-> io.keystate, keys |-> KeysWritten]
               ELSE seen
    /\ UNCHANGED <<lock, drawing, polling, shown, driverVars>>

\* step on Draw, up to the loop: the row is read, the lock taken, the flag
\* register cleared
DrawBegin ==
    /\ result.kind \in {"None", "Continue"}
    /\ drawing = <<>>
    /\ DrawsInRange(NextInstr)
    /\ LockFree(lock)
    /\ LET m1 == DelayTick(Machine, now)
       IN  /\ SetMachine(SetReg(m1, FlagReg, 0))
           /\ drawing' = [x |-> NextInstr.x, row |-> V(m1, NextInstr.y),
                          k |-> 0, n |-> NextInstr.n]
           /\ timer' = TimerAfterStep(timer, Machine, m1, now)
    /\ lock' = "engine"
    /\ calls' = Push(calls, StepCallRecord(Machine, now))
    /\ pre' = Snapshot(Machine, io.keystate)
    /\ pre2' = pre
    /\ UNCHANGED <<io, now, result, polling, shown, seen, codecVars, driverVars>>

\* one turn of the loop over the sprite bytes
DrawByte ==
    /\ drawing # <<>>
    /\ drawing.k < drawing.n
    /\ LET m == DrawRows(Machine, drawing.x, reg.i, drawing.row + drawing.k,
                         drawing.k, drawing.k + 1)
       IN  /\ SetMachine(m)
           /\ io' = [io EXCEPT !.display = m.display]
    /\ drawing' = [drawing EXCEPT !.k = drawing.k + 1]
    /\ UNCHANGED <<now, result, calls, pre, pre2, timer, lock, polling, shown,
                   seen, codecVars, driverVars>>

\* the end of the loop: the lock is dropped, the step returns
DrawEnd ==
    /\ drawing # <<>>
    /\ drawing.k = drawing.n
    /\ SetMachine(advance(Machine, 2).m)
    /\ result' = Continue(TRUE)
    /\ lock' = "none"
    /\ drawing' = <<>>
    /\ UNCHANGED <<io, now, calls, pre, pre2, timer, polling, shown, seen,
                   codecVars, driverVars>>

\* what a pass finds down: nothing, or keys 3 and 7
PassKeySets == {{}, {3, 7}}

\* App::update takes the lock for its pass over the keys
PassBegin ==
    /\ polling = <<>>
    /\ LockFree(lock)
    /\ \E pressed \in PassKeySets :
          /\ io.keystate # KeyState(pressed)
          /\ polling' = [key |-> 0, pressed |-> pressed]
    /\ lock' = "ui"
    /\ UNCHANGED <<stack, pc, reg, delay, tick, memory, paused, io, now, result,
                   calls, pre, pre2, timer, drawing, shown, seen, codecVars, driverVars>>

\* chip8_keys[key] = pressed_keys.contains(..)
PassKey ==
    /\ polling # <<>>
    /\ polling.key < NumKeys
    /\ io' = [io EXCEPT !.keystate[polling.key] = polling.key \in polling.pressed]
    /\ polling' = [polling EXCEPT !.key = polling.key + 1]
    /\ UNCHANGED <<stack, pc, reg, delay, tick, memory, paused, now, result,
                   calls, pre, pre2, timer, lock, drawing, shown, seen, codecVars, driverVars>>

\* the end of the block: the lock is dropped
PassEnd ==
    /\ polling # <<>>
    /\ polling.key = NumKeys
    /\ polling' = <<>>
    /\ lock' = "none"
    /\ UNCHANGED <<stack, pc, reg, delay, tick, memory, paused, io, now, result,
                   calls, pre, pre2, timer, drawing, shown, seen, codecVars, driverVars>>

\* show_chip8_display: let value = self.io.lock().unwrap().display
ShowDisplay ==
    /\ polling = <<>>
    /\ LockFree(lock)
    /\ shown' = [display |-> io.display,
                 bytes |-> IF drawing = <<>> THEN 0 ELSE drawing.k,
                 of |-> IF drawing = <<>> THEN 0 ELSE drawing.n]
    /\ shown' # shown
    /\ UNCHANGED <<stack, pc, reg, delay, tick, memory, paused, io, now, result,
                   calls, pre, pre2, timer, lock, drawing, polling, seen,
                   codecVars, driverVars>>

\* a program that draws glyph 0, waits for a key, tests it and starts again
IoRoms ==
    {Bytes(<<OpDraw(0, 0, 5), \hF10A, \hE19E, \h00E0, OpA(\h1000, \h200)>>)}

NextIo ==
    \/ EngineStep \/ DrawBegin \/ DrawByte \/ DrawEnd
    \/ PassBegin \/ PassKey \/ PassEnd \/ ShowDisplay

SpecIo == MachineInit(IoRoms) /\ [][NextIo]_vars

(***************************************************************************)
(* The three parties on the Mutex<Chip8> and the Mutex<Chip8IO>.  The      *)
(* execution thread (main.rs 74-86) locks the machine for the statement    *)
(* that calls step, and step locks the io surface inside it.  The          *)
(* presentation thread (App::update, app.rs 262-288) locks the io surface  *)
(* for the key pass, then the machine for show_general_state, then the io  *)
(* surface for the copy of the display.  The Load ROM task (app.rs         *)
(* 100-109) locks the machine for reset, which locks the io surface        *)
(* inside it, and load_rom.  A thread stands before a lock until the lock  *)
(* is free.  The rate controller's sleep, between two iterations of the    *)
(* execution thread, is taken with no lock held and is left out.           *)
(***************************************************************************)
\* the guard of the key pass outlives show_general_state
DropsKeyGuard_AfterState(at) == at = "stateHeld"

\* where the presentation thread drops the guard of the key pass: at the end
\* of the block of the pass
DropsKeyGuard(at) == at = "keysHeld"

\* ROMs the file dialog hands to the Load ROM task
LoadedRoms ==
    {Bytes(<<OpXN(\h6000, 3, \h42)>>),
     Bytes(<<\hF10A, \h00E0, OpA(\h1000, \h200)>>)}

\* the Load ROM clicks of a behaviour of the model
MaxLoads == 2

TasksStart == [engine |-> "loop", ui |-> "keys", loader |-> "idle",
               loads |-> 0, rom |-> <<>>]

\* let step = cpu.lock().unwrap().step(): the lock
EngineLock ==
    /\ tasks.engine = "loop"
    /\ LockFree(mutex)
    /\ mutex' = "engine"
    /\ tasks' = [tasks EXCEPT !.engine = "step"]
    /\ UNCHANGED <<stack, pc, reg, delay, tick, memory, paused, io, now, result,
                   calls, pre, pre2, timer, threadVars, limiter, codecVars>>

\* the step under the machine lock, which is dropped at the end of the
\* statement; the loop is left on any outcome but Continue
EngineRun ==
    /\ tasks.engine = "step"
    /\ LocksIo(NextInstr) => LockFree(lock)
    /\ StepEffect
    /\ mutex' = "none"
    /\ tasks' = [tasks EXCEPT
                   !.engine = IF result'.kind = "Continue" THEN "loop" ELSE "stopped"]
    /\ UNCHANGED <<threadVars, limiter>>

\* App::update: the lock of the key pass
UiLockIo ==
    /\ tasks.ui = "keys"
    /\ LockFree(lock)
    /\ lock' = "ui"
    /\ tasks' = [tasks EXCEPT !.ui = "keysHeld"]
    /\ UNCHANGED <<stack, pc, reg, delay, tick, memory, paused, io, now, result,
                   calls, pre, pre2, timer, drawing, polling, shown, seen,
                   limiter, mutex, codecVars>>

\* the pass over the keys, to the end of its block
UiWriteKeys ==
    /\ tasks.ui = "keysHeld"
    /\ \E pressed \in PassKeySets : io' = [io EXCEPT !.keystate = KeyState(pressed)]
    /\ lock' = IF DropsKeyGuard("keysHeld") THEN "none" ELSE lock
    /\ tasks' = [tasks EXCEPT !.ui = "state"]
    /\ UNCHANGED <<stack, pc, reg, delay, tick, memory, paused, now, result,
                   calls, pre, pre2, timer, drawing, polling, shown, seen,
                   limiter, mutex, codecVars>>

\* show_general_state: the machine lock
UiLockMachine ==
    /\ tasks.ui = "state"
    /\ LockFree(mutex)
    /\ mutex' = "ui"
    /\ tasks' = [tasks EXCEPT !.ui = "stateHeld"]
    /\ UNCHANGED <<stack, pc, reg, delay, tick, memory, paused, io, now, result,
                   calls, pre, pre2, timer, threadVars, limiter, codecVars>>

\* show_general_state returns: the machine lock is dropped
UiUnlockMachine ==
    /\ tasks.ui = "stateHeld"
    /\ mutex' = "none"
    /\ lock' = IF DropsKeyGuard("stateHeld") THEN "none" ELSE lock
    /\ tasks' = [tasks EXCEPT !.ui = "display"]
    /\ UNCHANGED <<stack, pc, reg, delay, tick, memory, paused, io, now, result,
                   calls, pre, pre2, timer, drawing, polling, shown, seen,
                   limiter, codecVars>>

\* show_chip8_display: the display is copied under the io lock
UiShowDisplay ==
    /\ tasks.ui = "display"
    /\ LockFree(lock)
    /\ shown' = [display |-> io.display, bytes |-> 0, of |-> 0]
    /\ tasks' = [tasks EXCEPT !.ui = "keys"]
    /\ UNCHANGED <<stack, pc, reg, delay, tick, memory, paused, io, now, result,
                   calls, pre, pre2, timer, lock, drawing, polling, seen,
                   limiter, mutex, codecVars>>

\* Load ROM is clicked and a file is picked and read
LoaderPick ==
    /\ tasks.loader = "idle"
    /\ tasks.loads < MaxLoads
    /\ \E rom \in LoadedRoms :
          tasks' = [tasks EXCEPT !.loader = "picked", !.rom = rom,
                                 !.loads = tasks.loads + 1]
    /\ UNCHANGED <<stack, pc, reg, delay, tick, memory, paused, io, now, result,
                   calls, pre, pre2, timer, threadVars, limiter, mutex, codecVars>>

\* if let Ok(mut chip8) = self_cpy.chip8.lock()
LoaderLock ==
    /\ tasks.loader = "picked"
    /\ LockFree(mutex)
    /\ mutex' = "loader"
    /\ tasks' = [tasks EXCEPT !.loader = "locked"]
    /\ UNCHANGED <<stack, pc, reg, delay, tick, memory, paused, io, now, result,
                   calls, pre, pre2, timer, threadVars, limiter, codecVars>>

\* chip8.reset(), which locks the io surface for its last statement
LoaderReset ==
    /\ tasks.loader = "locked"
    /\ LockFree(lock)
    /\ ResetEffect
    /\ tasks' = [tasks EXCEPT !.loader = "reset"]
    /\ UNCHANGED <<threadVars, limiter, mutex>>

\* chip8.load_rom(&rom), and the end of the block: the machine lock is dropped
LoaderLoadRom ==
    /\ tasks.loader = "reset"
    /\ LoadRomEffect(tasks.rom)
    /\ mutex' = "none"
    /\ tasks' = [tasks EXCEPT !.loader = "idle"]
    /\ UNCHANGED <<io, threadVars, limiter>>

\* the programs main.rs starts with: one that ends, one that goes on
StartRoms == IoRoms \cup {Bytes(<<\h00E0>>)}

InitTasks ==
    /\ now = 0
    /\ \E rom \in StartRoms :
          LET m == Chip8_new(rom, FALSE, 0)
          IN  /\ stack = m.stack /\ pc = m.pc /\ reg = m.reg
              /\ delay = m.delay /\ tick = m.tick /\ memory = m.memory
              /\ paused = m.paused
              /\ pre = Snapshot(m, Chip8IO_new.keystate)
              /\ pre2 = Snapshot(m, Chip8IO_new.keystate)
    /\ io = Chip8IO_new
    /\ result = NoResult
    /\ calls = <<>>
    /\ timer = TimerStart(0)
    /\ lock = "none" /\ drawing = <<>> /\ polling = <<>> /\ shown = <<>> /\ seen = <<>>
    /\ limiter = <<>>
    /\ mutex = "none"
    /\ tasks = TasksStart
    /\ CodecIdle

EngineNext == EngineLock \/ EngineRun
UiNext == UiLockIo \/ UiWriteKeys \/ UiLockMachine \/ UiUnlockMachine \/ UiShowDisplay
LoaderNext == LoaderPick \/ LoaderLock \/ LoaderReset \/ LoaderLoadRom

NextTasks == EngineNext \/ UiNext \/ LoaderNext

SpecTasks == InitTasks /\ [][NextTasks]_vars

\* EngineRun is enabled: the thread holds the machine lock, the io lock is
\* free if the instruction takes it, and step can be called
EngineRunEnabled ==
    /\ tasks.engine = "step"
    /\ LocksIo(NextInstr) => LockFree(lock)
    /\ result.kind # "Panic" /\ Len(stack) <= MaxStack

\* every party goes on if it can again and again, however the other parties
\* take the locks: strong fairness of each party's steps (that of EngineRun
\* is written out, with its enabling condition as a state predicate)
SpecTasksFair ==
    /\ SpecTasks
    /\ SF_vars(EngineLock)
    /\ []<>EngineRunEnabled => []<><<EngineRun>>_vars
    /\ SF_vars(UiNext)
    /\ SF_vars(LoaderLock \/ LoaderReset \/ LoaderLoadRom)

\* words of every instruction group: the ones that end a program (Sys,
\* self-jumps, words outside the table, a return with no call), the ones
\* that reach the ends of the memory, and ordinary ones around them
ProgramWords ==
    {\h0000, \h0123, \h00E0, \h00EE,
     OpA(\h1000, \h200), OpA(\h1000, \h204), OpA(\h2000, \h202), OpA(\h2000, \hFFF),
     OpXN(\h3000, 0, 0), OpXN(\h4000, 0, 0), \h5010, \h5001, \h9010,
     OpXN(\h6000, 0, \hFF), OpXN(\h6000, 1, \h10), OpXN(\h7000, 1, 1),
     \h8014, \h8008, OpA(\hA000, \h005), OpA(\hA000, \hFFF), OpA(\hB000, \hFFF),
     OpXN(\hC000, 0, 0), OpXN(\hC000, 0, 3), OpDraw(0, 1, 5),
     \hE09E, \hE000, \hF00A, \hF015, \hF01E, \hF129, \hF033, \hF155, \hF165,
     \hF0FF}

\* what a program does first: point the address register at the font or at
\* the last byte of the memory, load a register, call, draw glyph 0
SetupWords ==
    {OpA(\hA000, \h005), OpA(\hA000, \hFFF), OpXN(\h6000, 0, \hFF),
     OpXN(\h6000, 1, \h10), OpA(\h2000, \h202), OpDraw(0, 1, 5)}

ProgramRoms == {Bytes(<<a, b>>) : <<a, b>> \in SetupWords \X ProgramWords}

\* the driver loop on those programs while the keys are polled
SpecProgram == MachineInit(ProgramRoms) /\ [][DriverStep \/ PollKeys]_vars

InitKeys == MachineInit(KeyRoms)
NextKeys == DriverStep \/ PollKeys
SpecKeys == InitKeys /\ [][NextKeys]_vars

(***************************************************************************)
(* The codec on its own: every 16-bit word is decoded, and what decodes is *)
(* encoded again.  No machine is involved.                                 *)
(***************************************************************************)
Decode ==
    /\ word # -1 /\ decoded = <<>>
    /\ decoded' = try_from(word)
    /\ UNCHANGED <<word, encoded, machineVars>>

Encode ==
    /\ decoded # <<>> /\ decoded.ok /\ encoded = -1
    /\ encoded' = u16_from(decoded.instr)
    /\ UNCHANGED <<word, decoded, machineVars>>

InitCodec ==
    /\ word \in 0 .. (U16 - 1)
    /\ decoded = <<>>
    /\ encoded = -1
    /\ now = 0
    /\ stack = <<>> /\ pc = 0 /\ reg = <<>> /\ delay = 0 /\ tick = 0
    /\ memory = <<>> /\ paused = FALSE /\ io = <<>>
    /\ result = NoResult /\ calls = <<>> /\ pre = <<>> /\ pre2 = <<>>
    /\ timer = TimerStart(0)
    /\ ThreadsIdle

NextCodec == Decode \/ Encode
SpecCodec == InitCodec /\ [][NextCodec]_vars

(***************************************************************************)
(* The rate controller of the execution thread (main.rs 20-36, called at   *)
(* main.rs 83).  Instants and durations are in nanoseconds.                *)
(***************************************************************************)
NanosPerSec == 1000000000

\* a controller that sleeps for the difference whatever its sign
rate_limit_NoGuard(ticks_per_sec, ticker, task_end, late) ==
    LET busy_elapsed == task_end - ticker
        target == NanosPerSec \div ticks_per_sec
        diff == target - busy_elapsed
        loop_end == task_end + (IF diff > 0 THEN diff ELSE -diff) + late
    IN  [slept |-> <<diff>>,
         ticker |-> loop_end,
         busy |-> busy_elapsed,
         full |-> loop_end - ticker]

\* rate_limit(ticks_per_sec, &mut ticker) when the first Instant::now() reads
\* task_end and the second one reads late nanoseconds past the end of the
\* sleep: the durations handed to thread::sleep, the new *ticker and the
\* returned pair
rate_limit(ticks_per_sec, ticker, task_end, late) ==
    LET busy_elapsed == task_end - ticker
        target == NanosPerSec \div ticks_per_sec
        slept == IF target > busy_elapsed THEN <<target - busy_elapsed>> ELSE <<>>
        loop_end == task_end + (IF slept = <<>> THEN 0 ELSE slept[1]) + late
    IN  [slept |-> slept,
         ticker |-> loop_end,
         busy |-> busy_elapsed,
         full |-> loop_end - ticker]

\* target rates the atomic holds (periods of 1 s, 1/3 s, 5 ns, 1 ns, 0 ns)
Rates == {1, 3, 200000000, 1000000000, 2000000000}
\* how long an iteration's work took
WorkNanos == {0, 1, 4, 5, 7, 1000000000}
\* how far past the end of the sleep the clock is read
LateNanos == {0, 2}

\* the iterations of the driver loop a behaviour of the model runs
MaxRounds == 3
\* the last clock reading of such a behaviour
MaxNanos == 2100000000

\* the thread is spawned: let mut ticker = Instant::now()
LimiterStart == [ticker |-> 0, round |-> 0]

\* one iteration's rate_limit(target_ips.load(Relaxed), &mut ticker)
RateLimit ==
    /\ limiter.round < MaxRounds
    \* room on the model's clock for the longest work and the longest sleep
    /\ limiter.ticker <= MaxNanos - NanosPerSec - NanosPerSec - 2
    /\ \E r \in Rates, work \in WorkNanos, late \in LateNanos :
          LET task_end == limiter.ticker + work
              out == rate_limit(r, limiter.ticker, task_end, late)
          IN  /\ limiter' = [ticker |-> out.ticker,
                             round |-> limiter.round + 1,
                             last_tick |-> limiter.ticker,
                             task_end |-> task_end,
                             loop_end |-> out.ticker,
                             ips |-> r,
                             prev_ips |-> IF limiter.round = 0 THEN 0 ELSE limiter.ips,
                             slept |-> out.slept,
                             busy |-> out.busy,
                             full |-> out.full]
    /\ UNCHANGED <<stack, pc, reg, delay, tick, memory, paused, io, now, result,
                   calls, pre, pre2, timer, threadVars, mutex, tasks, codecVars>>

InitRate ==
    /\ word = -1 /\ decoded = <<>> /\ encoded = -1
    /\ now = 0
    /\ stack = <<>> /\ pc = 0 /\ reg = <<>> /\ delay = 0 /\ tick = 0
    /\ memory = <<>> /\ paused = FALSE /\ io = <<>>
    /\ result = NoResult /\ calls = <<>> /\ pre = <<>> /\ pre2 = <<>>
    /\ timer = TimerStart(0)
    /\ lock = "none" /\ drawing = <<>> /\ polling = <<>> /\ shown = <<>> /\ seen = <<>>
    /\ mutex = "none" /\ tasks = <<>>
    /\ limiter = LimiterStart

SpecRate == InitRate /\ [][RateLimit]_vars

(***************************************************************************)
(* Properties.  The history variables give the last calls (calls, newest   *)
(* first) and the machine before the last call (pre) and before the call   *)
(* before it (pre2).                                                       *)
(***************************************************************************)
\* the last call was a step that fetched a word
Stepped(k) == Len(calls) >= k /\ calls[k].op = "step" /\ calls[k].word # -1

\* the instruction the k-th last call executed
Instr(k) == try_from(calls[k].word).instr

\* the last call was a step that executed instruction op
Executed(op) == Stepped(1) /\ try_from(calls[1].word).ok /\ Instr(1).op = op

(* C1: every 16-bit word that decodes is encoded back to itself. *)
C1_RoundTrip == encoded # -1 => encoded = word

(* C2: after Addr(x, y) the flag register is 1 if Vx + Vy > 255 and 0
   otherwise, register x (x # 15) holds (Vx + Vy) mod 256, and the program
   counter has advanced by 2. *)
C2_AddrCarry ==
    Executed("Addr") =>
        LET x == Instr(1).x
            y == Instr(1).y
            sum == pre.reg.v[x] + pre.reg.v[y]
        IN  /\ reg.v[15] = (IF sum > 255 THEN 1 ELSE 0)
            /\ (x # 15 => reg.v[x] = sum % 256)
            /\ pc = pre.pc + 2

C2_Witness ==
    /\ Executed("Addr")
    /\ Instr(1).x # 15
    /\ pre.reg.v[Instr(1).x] = 255 /\ pre.reg.v[Instr(1).y] = 1
    /\ reg.v[Instr(1).x] = 0 /\ reg.v[15] = 1

(* C3: after Shl(x, y) with x, y # 15 the flag register holds the most
   significant bit of the old register y (0 or 1) and register y holds
   (old Vx << 1) mod 256. *)
C3_ShlFlag ==
    (Executed("Shl") /\ Instr(1).x # 15 /\ Instr(1).y # 15) =>
        /\ reg.v[15] = pre.reg.v[Instr(1).y] \div 128
        /\ reg.v[Instr(1).y] = (pre.reg.v[Instr(1).x] * 2) % 256

(* C4 as stated: after Shr(x, y) with x, y # 15 the flag register holds the
   least significant bit of the old register y, register y holds old
   Vx >> 1, register x is unchanged and the program counter has advanced
   by 2. *)
C4_ShrOriginal ==
    (Executed("Shr") /\ Instr(1).x # 15 /\ Instr(1).y # 15) =>
        /\ reg.v[15] = pre.reg.v[Instr(1).y] % 2
        /\ reg.v[Instr(1).y] = pre.reg.v[Instr(1).x] \div 2
        /\ reg.v[Instr(1).x] = pre.reg.v[Instr(1).x]
        /\ pc = pre.pc + 2

(* C4 amended: as C4, with register x unchanged when x # y (with x = y the
   register is the destination and holds old Vx >> 1). *)
C4_ShrAmended ==
    (Executed("Shr") /\ Instr(1).x # 15 /\ Instr(1).y # 15) =>
        /\ reg.v[15] = pre.reg.v[Instr(1).y] % 2
        /\ reg.v[Instr(1).y] = pre.reg.v[Instr(1).x] \div 2
        /\ (Instr(1).x # Instr(1).y => reg.v[Instr(1).x] = pre.reg.v[Instr(1).x])
        /\ pc = pre.pc + 2

C4_Witness ==
    /\ Executed("Shr")
    /\ Instr(1).x = 0 /\ Instr(1).y = 1
    /\ pre.reg.v[0] = 66 /\ pre.reg.v[1] = 255
    /\ reg.v[15] = 1 /\ reg.v[1] = 33 /\ reg.v[0] = 66

\* the program counter Jump, JumpI or Call computes
FlowTarget(ins, before) ==
    CASE ins.op = "Jump" -> (before.pc \div 4096) * 4096 + ins.addr
      [] ins.op = "JumpI" -> ins.addr + before.reg.v[0]
      [] ins.op = "Call" -> ins.addr

(* C5: a Jump, JumpI or Call whose target is the address being executed
   returns Loop and leaves the program counter and the call stack as they
   were; with any other target the program counter becomes the target and
   the step returns Continue(false). *)
C5_SelfLoop ==
    (Executed("Jump") \/ Executed("JumpI") \/ Executed("Call")) =>
        IF FlowTarget(Instr(1), pre) = pre.pc
        THEN result = Loop /\ pc = pre.pc /\ stack = pre.stack
        ELSE result = Continue(FALSE) /\ pc = FlowTarget(Instr(1), pre)

C5_Witness ==
    /\ Executed("Call")
    /\ Instr(1).addr = pre.pc
    /\ result = Loop
    /\ stack = pre.stack /\ Len(stack) = 1

(* C6: Rts returns an error exactly when the call stack is empty, and never
   panics. *)
C6_RtsEmptyStack ==
    Executed("Rts") =>
        /\ result.kind \in {"Err", "Continue"}
        /\ (result.kind = "Err") <=> (pre.stack = <<>>)

C6_Witness ==
    /\ Executed("Rts")
    /\ pre.stack = <<>>
    /\ result = Err("Return from empty stack")

\* the cells a sprite of n bytes at address i reaches from (X0, Y0): bit c
\* (0 = most significant) of byte r goes to row (Y0 + r) mod 32, column
\* (X0 + c) mod 64
SpriteCells(mem, i, n, X0, Y0) ==
    {<<(Y0 + rc[1]) % 32, (X0 + rc[2]) % 64>> :
        rc \in {q \in (0 .. (n - 1)) \X (0 .. 7) :
                   (MemRead(mem, i + q[1]) \div Pow2(7 - q[2])) % 2 = 1}}

\* the sprite cells of the Draw that the last call executed, from the
\* register values it started with
LastSprite ==
    SpriteCells(memory, pre.reg.i, Instr(1).n,
                pre.reg.v[Instr(1).x], pre.reg.v[Instr(1).y])

(* C7: Draw(x, y, n), for all x, y including the flag register: every sprite
   bit is XORed into the cell at row (Y0 + r) mod 32, column (X0 + c) mod 64,
   with X0, Y0 the values of registers x, y when the instruction starts;
   the flag register is 1 if a set cell was cleared and 0 otherwise; the
   step returns Continue(true) and the program counter advances by 2. *)
C7_DrawXor ==
    Executed("Draw") =>
        /\ io.display = (pre.display \ LastSprite) \cup (LastSprite \ pre.display)
        /\ reg.v[15] = (IF LastSprite \cap pre.display # {} THEN 1 ELSE 0)
        /\ result = Continue(TRUE)
        /\ pc = pre.pc + 2

\* the last two calls executed the same Draw word with x, y # 15, the same
\* values in registers x and y and the same address register
DrawTwice ==
    /\ Executed("Draw") /\ Stepped(2)
    /\ calls[2].word = calls[1].word
    /\ Instr(1).x # 15 /\ Instr(1).y # 15
    /\ pre.reg.v[Instr(1).x] = pre2.reg.v[Instr(1).x]
    /\ pre.reg.v[Instr(1).y] = pre2.reg.v[Instr(1).y]
    /\ pre.reg.i = pre2.reg.i

(* C8: Draw executed twice in a row with identical operands leaves the
   framebuffer as it was before the first Draw. *)
C8_DrawInvolution == DrawTwice => io.display = pre2.display

C8_Witness ==
    /\ DrawTwice
    /\ LastSprite \cap pre2.display # {}
    /\ LastSprite \ pre2.display # {}
    /\ pre2.display \ LastSprite # {}
    /\ pre.display # pre2.display
    /\ io.display = pre2.display

(* C9 as stated: after Draw executed twice in a row with identical operands
   the flag register is 1 whenever some bit of the sprite bytes is 1. *)
C9_SecondDrawOriginal ==
    (DrawTwice /\ LastSprite # {}) => reg.v[15] = 1

(* C9 amended: after Draw executed twice in a row with identical operands
   the flag register is 1 whenever some sprite bit that is 1 falls on a
   cell that was clear before the first Draw. *)
C9_SecondDrawAmended ==
    (DrawTwice /\ LastSprite \ pre2.display # {}) => reg.v[15] = 1

C9_Witness ==
    /\ DrawTwice
    /\ pre2.display = {}
    /\ LastSprite # {}
    /\ reg.v[15] = 1

\* the first instruction of the ROM is Load(3, 0x42), the word 0x6342
FirstIsLoad3(rom) == Len(rom) >= 2 /\ rom[1] = \h63 /\ rom[2] = \h42

(* C10 as stated: after load_rom of a ROM whose first instruction is
   Load(3, 0x42), then reset, one step of the unpaused machine leaves
   register 3 equal to 0x42 and the program counter equal to 0x202. *)
C10_LoadThenResetOriginal ==
    (/\ Len(calls) = 3 /\ ~paused
     /\ calls[1].op = "step" /\ calls[2].op = "reset"
     /\ calls[3].op = "load_rom" /\ FirstIsLoad3(calls[3].rom)) =>
        reg.v[3] = \h42 /\ pc = \h202

(* C10 amended: after reset, then load_rom of a ROM whose first instruction
   is Load(3, 0x42), one step of the unpaused machine leaves register 3
   equal to 0x42 and the program counter equal to 0x202. *)
C10_ResetThenLoadAmended ==
    (/\ Len(calls) = 3 /\ ~paused
     /\ calls[1].op = "step" /\ calls[3].op = "reset"
     /\ calls[2].op = "load_rom" /\ FirstIsLoad3(calls[2].rom)) =>
        reg.v[3] = \h42 /\ pc = \h202

C10_Witness ==
    /\ Len(calls) = 3 /\ ~paused
    /\ calls[1].op = "step" /\ calls[3].op = "reset"
    /\ calls[2].op = "load_rom" /\ FirstIsLoad3(calls[2].rom)
    /\ result = Continue(FALSE)
    /\ reg.v[3] = \h42 /\ pc = \h202

\* the lowest-indexed key that is down in key state ks
LowestKey(ks) == CHOOSE k \in DOMAIN ks : ks[k] /\ \A j \in DOMAIN ks : ks[j] => k <= j
NoKeyDown(ks) == \A k \in DOMAIN ks : ~ks[k]

(* C11: a Keyd(x) step taken while no key is down leaves the program counter
   and every register as they were and returns Continue(false), however
   often it is repeated; a Keyd(x) step taken while a key is down puts the
   index of the lowest-indexed key that is down into register x and advances
   the program counter by 2. *)
C11_WaitForKey ==
    Executed("Keyd") =>
        IF NoKeyDown(pre.keystate)
        THEN pc = pre.pc /\ reg = pre.reg /\ result = Continue(FALSE)
        ELSE reg.v[Instr(1).x] = LowestKey(pre.keystate) /\ pc = pre.pc + 2

C11_Witness ==
    /\ Executed("Keyd") /\ Stepped(2) /\ calls[2].word = calls[1].word
    /\ NoKeyDown(pre2.keystate) /\ pre.pc = pre2.pc
    /\ pre.keystate = KeyState({7, 15})
    /\ reg.v[Instr(1).x] = 7 /\ pc = pre.pc + 2

(* C12: two decrements of the delay counter are more than 16 ms apart, a
   step that changes the counter other than by LoadD takes exactly one from
   it and does so only when more than 16 ms have passed since the last tick,
   and the counter is never below zero. *)
C12_DelayRateLimit ==
    /\ delay \in 0 .. (U8 - 1)
    /\ (timer.prevDec # -1 => timer.lastDec - timer.prevDec > TickMillis)
    /\ (Stepped(1) /\ ~Executed("LoadD") /\ delay # pre.delay) =>
            /\ delay = pre.delay - 1
            /\ calls[1].at - pre.tick > TickMillis
            /\ timer.lastDec = calls[1].at

C12_Witness ==
    /\ Stepped(1) /\ pre.delay = 2 /\ delay = 1
    /\ timer.lastDec = calls[1].at /\ timer.prevDec # -1
    /\ timer.lastDec - timer.prevDec = 17

\* the delay-counter decrements since the counter was loaded
DecrementsSinceLoad == timer.loadVal - delay

\* the whole 16 ms intervals elapsed since the counter was loaded, as far as
\* the loaded value lasts
IntervalsSinceLoad ==
    LET n == (calls[1].at - timer.loadAt) \div 16
    IN  IF n < timer.loadVal THEN n ELSE timer.loadVal

(* C13: after a step of the unpaused machine the number of delay-counter
   decrements since the counter was loaded is the number of whole 16 ms
   intervals elapsed since then (as far as the counter lasts), to within the
   one interval in progress, whatever the number of steps taken in that
   time. *)
C13_DelayDecoupled ==
    (Stepped(1) /\ ~paused /\ ~Executed("LoadD")) =>
        /\ DecrementsSinceLoad <= IntervalsSinceLoad
        /\ DecrementsSinceLoad >= IntervalsSinceLoad - 1

\* no other machine state than the delay counter and the tick timestamp
SameButTimer ==
    /\ pc = pre.pc /\ reg = pre.reg /\ stack = pre.stack
    /\ memory = pre.memory /\ io.display = pre.display
    /\ io.keystate = pre.keystate

\* the last call was a step, and the call before it a step that fetched the
\* word 0x0000 (and so returned End)
AfterEnd ==
    /\ Len(calls) >= 2
    /\ calls[1].op = "step" /\ calls[2].op = "step" /\ calls[2].word = 0

(* C17 as stated: the word 0x0000 returns End and changes no machine state;
   any other 0x0nnn word except 0x00E0 and 0x00EE returns an error; a step
   that follows a step that returned End returns End again. *)
C17_SysOriginal ==
    /\ Executed("Sys") =>
            IF Instr(1).addr = 0
            THEN result = End /\ SameButTimer
                              /\ delay = pre.delay /\ tick = pre.tick
            ELSE result.kind = "Err"
    /\ AfterEnd => result = End

(* C17 amended: as C17, with the machine state that the word 0x0000 leaves
   unchanged being the program counter, the registers, the call stack, the
   memory, the framebuffer and the key state; the delay counter and the tick
   timestamp are still updated by the timer tick of the step. *)
C17_SysAmended ==
    /\ Executed("Sys") =>
            IF Instr(1).addr = 0
            THEN result = End /\ SameButTimer
            ELSE result.kind = "Err"
    /\ AfterEnd => result = End

C17_Witness ==
    /\ AfterEnd /\ Executed("Sys") /\ Instr(1).addr = 0
    /\ result = End /\ SameButTimer
    /\ pre.delay = 3 /\ delay = 2 /\ tick # pre.tick

\* the words outside the instruction table
BadWord(w) ==
    LET group == w \div 4096
        lo4 == w % 16
        lo8 == w % 256
    IN  \/ group \in {5, 9} /\ lo4 # 0
        \/ group = 8 /\ lo4 \notin {0, 1, 2, 3, 4, 5, 6, 14}
        \/ group = 14 /\ lo8 \notin {158, 161}
        \/ group = 15 /\ lo8 \notin {7, 10, 21, 24, 30, 41, 51, 85, 101}

\* the instructions of each group of the table
GroupOps(group) ==
    CASE group = 0 -> {"Clr", "Rts", "Sys"}
      [] group = 1 -> {"Jump"}
      [] group = 2 -> {"Call"}
      [] group = 3 -> {"Ske"}
      [] group = 4 -> {"Skne"}
      [] group = 5 -> {"Skre"}
      [] group = 6 -> {"Load"}
      [] group = 7 -> {"Add"}
      [] group = 8 -> {"Move", "Or", "And", "Xor", "Addr", "Sub", "Shr", "Shl"}
      [] group = 9 -> {"Skrne"}
      [] group = 10 -> {"LoadI"}
      [] group = 11 -> {"JumpI"}
      [] group = 12 -> {"Rand"}
      [] group = 13 -> {"Draw"}
      [] group = 14 -> {"Skpr", "Skup"}
      [] group = 15 -> {"Moved", "Keyd", "LoadD", "LoadS", "AddI", "Ldspr",
                        "Bcd", "Stor", "Read"}

\* every operand of instruction i is the bit field of word w it comes from
FieldsMatch(i, w) ==
    /\ i.op \in GroupOps(w \div 4096)
    /\ "x" \in DOMAIN i => i.x = (w \div 256) % 16
    /\ "y" \in DOMAIN i => i.y = (w \div 16) % 16
    /\ "addr" \in DOMAIN i => i.addr = w % 4096
    /\ "n" \in DOMAIN i => i.n = (IF i.op = "Draw" THEN w % 16 ELSE w % 256)

(* C15: a word fails to decode exactly when it is outside the instruction
   table (group 5 or 9 with low nibble # 0, group 8 with low nibble outside
   0..6 and 0xE, group 0xE with low byte outside 0x9E and 0xA1, group 0xF
   with low byte outside the nine listed); a failure carries the word, and
   a decoded instruction has the bit fields of the word as operands. *)
C15_DecodeTable ==
    decoded # <<>> =>
        /\ decoded.ok <=> ~BadWord(word)
        /\ ~decoded.ok => decoded.word = word
        /\ decoded.ok => FieldsMatch(decoded.instr, word)

C15_Witness ==
    /\ word = \h8127 /\ decoded # <<>>
    /\ ~decoded.ok /\ decoded.word = \h8127

(* C18: after Sub(x, y) with x # 15 register x holds (Vx - Vy) mod 256, the
   flag register is what it was, borrow or not, and the program counter has
   advanced by 2. *)
C18_SubNoFlag ==
    (Executed("Sub") /\ Instr(1).x # 15) =>
        /\ reg.v[Instr(1).x] =
               (pre.reg.v[Instr(1).x] - pre.reg.v[Instr(1).y] + 256) % 256
        /\ reg.v[15] = pre.reg.v[15]
        /\ pc = pre.pc + 2

C18_Witness ==
    /\ Executed("Sub") /\ Instr(1).x = 0 /\ Instr(1).y = 15
    /\ pre.reg.v[0] = 1 /\ pre.reg.v[15] = 255
    /\ reg.v[0] = 2 /\ reg.v[15] = 255

\* the five rows of glyph g of the font table
Glyph(g) == [k \in 1 .. 5 |-> FONT[5 * g + k]]

(* C16: Ldspr(x) with register x above 15 returns an error; otherwise it
   sets the address register to 5 times register x, where the rows of that
   glyph start in memory, and advances the program counter by 2. *)
C16_SpriteLoader ==
    Executed("Ldspr") =>
        LET val == pre.reg.v[Instr(1).x]
        IN  IF val > 15
            THEN result.kind = "Err"
            ELSE /\ reg.i = 5 * val
                 /\ [k \in 1 .. 5 |-> MemRead(memory, reg.i + k - 1)] = Glyph(val)
                 /\ pc = pre.pc + 2
                 /\ result = Continue(FALSE)

C16_Witness ==
    /\ Executed("Ldspr")
    /\ pre.reg.v[Instr(1).x] = 16
    /\ result.kind = "Err" /\ pc = pre.pc /\ reg = pre.reg

(* C20: a step that changes the framebuffer returns Continue(true), and a
   step that returns Continue(false) leaves the framebuffer as it was. *)
C20_RedrawFlag ==
    (Len(calls) >= 1 /\ calls[1].op = "step") =>
        /\ io.display # pre.display => result = Continue(TRUE)
        /\ result = Continue(FALSE) => io.display = pre.display

(* C19: a step of a paused machine returns Continue(false) and leaves the
   program counter, the registers with the address register, the call
   stack, the memory, the delay counter, the tick timestamp, the framebuffer
   and the key state as they were, however often it is repeated. *)
C19_PausedStep ==
    [][(paused /\ StepCall) =>
          /\ result' = Continue(FALSE)
          /\ UNCHANGED <<pc, reg, stack, memory, delay, tick, io, paused>>]_vars

C19_Witness ==
    /\ paused
    /\ Len(calls) = 3 /\ \A k \in 1 .. 3 : calls[k].op = "step"
    /\ calls[1].at >= 50 /\ calls[3].at = 0 /\ io.keystate = KeyState({3, 7})
    /\ result = Continue(FALSE)
    /\ pc = ProgramStart /\ tick = 0 /\ reg = Registers_new /\ stack = <<>>

\* the presentation thread copied the display while a Draw had written some
\* but not all bytes of its sprite
TornDisplayRead == shown # <<>> /\ 0 < shown.bytes /\ shown.bytes < shown.of

\* the execution thread read the key state while a pass had written some but
\* not all of the 16 keys
TornKeyRead == seen # <<>> /\ 0 < seen.keys /\ seen.keys < NumKeys

(* C14: in every interleaving of the two threads, no display read of the
   presentation thread falls inside a Draw that has written only some of
   its sprite bytes, and no key-state read of the execution thread falls
   inside a polling pass that has written only some of the 16 keys; a Draw
   or a pass in progress holds the lock. *)
C14_IoMutualExclusion ==
    /\ ~TornDisplayRead
    /\ ~TornKeyRead
    /\ drawing # <<>> => lock = "engine"
    /\ polling # <<>> => lock = "ui"

C14_Witness ==
    /\ lock = "ui" /\ polling # <<>> /\ polling.key = 8
    /\ NextInstr.op = "Keyd"
    /\ shown # <<>> /\ shown.display # {}
    /\ seen # <<>> /\ seen.keystate = KeyState({3, 7})

(* C23: Skre(x, y) advances the program counter by 4 when registers x and y
   are equal and by 2 otherwise; Skrne(x, y) advances it by 4 when they
   differ and by 2 otherwise; on the register state a step met, exactly one
   of Skre(x, y) and Skrne(x, y) takes the skip. *)
C23_RegisterSkips ==
    (Executed("Skre") \/ Executed("Skrne")) =>
        LET x == Instr(1).x
            y == Instr(1).y
            equal == pre.reg.v[x] = pre.reg.v[y]
            skips == IF Instr(1).op = "Skre" THEN equal ELSE ~equal
        IN  /\ pc = pre.pc + (IF skips THEN 4 ELSE 2)
            /\ (step_Skre(pre, x, y).m.pc = pre.pc + 4)
                   # (step_Skrne(pre, x, y).m.pc = pre.pc + 4)

(* C21: for the positive rate r read at an iteration and the boundary
   timestamp t, rate_limit sleeps for P - busy exactly when that is positive
   (P = 1_000_000_000 / r, busy the time since t) and does not sleep
   otherwise; no sleep is negative; afterwards the boundary timestamp is the
   loop-end time and the returned pair has full >= busy. *)
C21_RateLimit ==
    limiter.round > 0 =>
        LET P == NanosPerSec \div limiter.ips
            busy == limiter.task_end - limiter.last_tick
        IN  /\ limiter.busy = busy
            /\ (busy >= P => limiter.slept = <<>>)
            /\ (busy < P => limiter.slept = <<P - busy>>)
            /\ \A k \in DOMAIN limiter.slept : limiter.slept[k] >= 0
            /\ limiter.ticker = limiter.loop_end
            /\ limiter.full = limiter.loop_end - limiter.last_tick
            /\ limiter.full >= limiter.busy

\* an iteration at 3 per second after one at 1e9 per second: the first did
\* not sleep (busy 5 ns, period 1 ns), the second slept 333333333 - 4 ns
C21_Witness ==
    /\ limiter.round = 2
    /\ limiter.prev_ips = 1000000000 /\ limiter.ips = 3
    /\ limiter.last_tick = 5
    /\ limiter.busy = 4 /\ limiter.slept = <<333333329>>
    /\ limiter.full = 333333335

\* the last outcome lets the driver loop go on
Running == result.kind \in {"None", "Continue"}

(* C22: the execution thread calls step only while every outcome so far was
   Continue; from the first outcome that is Loop, End or an error on, no
   step is issued: the machine and its last outcome stay as they are. *)
C22_DriverTermination ==
    [][/\ StepCall => Running
       /\ ~Running => UNCHANGED <<stack, pc, reg, delay, tick, memory, paused,
                                  result, calls, pre, pre2>>]_vars

\* the loop was left on an error after two steps, and the keys have been
\* polled since with no step following
C22_Witness ==
    /\ result.kind = "Err"
    /\ Len(calls) = 2 /\ calls[1].op = "step"
    /\ io.keystate # pre.keystate

(* C24: a step that returns an error (a word outside the table, Rts on an
   empty stack, Ldspr of a value above 15, a non-zero Sys) leaves the program
   counter, the data registers, the address register, the call stack, the
   memory, the framebuffer and the key state as they were, and the step
   repeated on that state returns the same error. *)
C24_ErrorAtomicity ==
    [][(StepCall /\ result'.kind = "Err") =>
          /\ pc' = pc /\ reg' = reg /\ stack' = stack /\ memory' = memory
          /\ io' = io
          /\ \A o \in step(Machine, io.keystate, now)' : o.res = result']_vars

\* the four errors, each met on a machine an earlier instruction has changed
C24_Witness ==
    /\ Len(calls) = 2 /\ calls[1].op = "step"
    /\ \/ result = Err("Invalid Instruction") /\ io.display # BlankDisplay
       \/ result = Err("Return from empty stack") /\ reg.i = \hFFF
       \/ result = Err("LDSPR > 15") /\ reg.v[1] = 16
       \/ result = Err("SYS") /\ Len(stack) = 1

(* C25: on every state reachable from a freshly constructed machine by
   executing a program, every memory access of step (the fetch at pc and
   pc + 1, the operands of Stor, Read, Bcd and Draw at the address register)
   lies inside the 4096-byte memory and Rand accepts every immediate, so
   step returns a result and never aborts. *)
C25_StepNeverAborts == result.kind # "Panic"

(* C26: the call stack is empty at construction; a step changes it only by
   a non-self Call, which pushes the address a it is executed at and jumps
   to its target, and by an Rts on a non-empty stack, which pops the top
   and resumes 2 past it (so the depth is the number of executed Calls less
   the number of executed Rts); an Rts right after its Call leaves the stack
   as it was before the Call and resumes at a + 2. *)
C26_CallStackBalanced ==
    /\ (calls = <<>> => stack = <<>>)
    /\ [](\/ ~(Executed("Rts") /\ result.kind = "Continue")
          \/ ~(Stepped(2) /\ try_from(calls[2].word).ok /\ Instr(2).op = "Call")
          \/ stack = pre2.stack /\ pc = pre2.pc + 2)
    /\ [][StepCall =>
            CASE NextInstr.op = "Call" /\ NextInstr.addr # pc ->
                    /\ stack' = Append(stack, pc)
                    /\ pc' = NextInstr.addr
              [] NextInstr.op = "Rts" /\ stack # <<>> ->
                    /\ stack' = SubSeq(stack, 1, Len(stack) - 1)
                    /\ pc' = stack[Len(stack)] + 2
              [] OTHER -> stack' = stack]_vars

\* the inner return of two nested calls
C26_Witness ==
    /\ Executed("Rts") /\ result.kind = "Continue"
    /\ Len(pre.stack) = 2 /\ stack = <<pre.stack[1]>>
    /\ pc = pre.stack[2] + 2

(* C27: no step changes the key state; a step changes the framebuffer only
   when it executes Draw or Clr; after Clr every framebuffer cell is
   false. *)
C27_IoWriteDiscipline ==
    [][StepCall =>
          /\ io'.keystate = io.keystate
          /\ (io'.display # io.display => NextInstr.op \in {"Draw", "Clr"})
          /\ (NextInstr.op = "Clr" => io'.display = BlankDisplay)]_vars

\* Clr on a framebuffer that holds a glyph, with keys 3 and 7 down
C27_Witness ==
    /\ Executed("Clr")
    /\ pre.display # BlankDisplay /\ io.display = BlankDisplay
    /\ pre.keystate = KeyState({3, 7}) /\ io.keystate = KeyState({3, 7})

\* the lock a party stands before ("none": it stands before no lock)
Wants(t) ==
    CASE t = "engine" ->
            IF tasks.engine = "loop" THEN "machine"
            ELSE IF tasks.engine = "step" /\ LocksIo(NextInstr) THEN "io"
            ELSE "none"
      [] t = "ui" ->
            IF tasks.ui \in {"keys", "display"} THEN "io"
            ELSE IF tasks.ui = "state" THEN "machine"
            ELSE "none"
      [] t = "loader" ->
            IF tasks.loader = "picked" THEN "machine"
            ELSE IF tasks.loader = "locked" THEN "io"
            ELSE "none"

\* the party that holds a lock
Holder(l) == IF l = "machine" THEN mutex ELSE lock

\* the party stands before a lock that another party, or itself, holds
Blocked(t) == Wants(t) # "none" /\ Holder(Wants(t)) # "none"

Parties == {"engine", "ui", "loader"}

\* some parties each wait for a lock that one of them holds
Deadlocked ==
    \E S \in (SUBSET Parties) \ {{}} :
        \A t \in S : Blocked(t) /\ Holder(Wants(t)) \in S

(* C28: no party asks for the machine lock while it holds the io lock (the
   io lock is taken alone or under the machine lock), and in no reachable
   state do parties wait for locks held by one another. *)
C28_DeadlockFree ==
    /\ \A t \in Parties : Wants(t) = "machine" => lock # t
    /\ ~Deadlocked

\* contention that resolves: the execution thread holds the machine lock and
\* waits for the io lock of the key pass while the Load ROM task waits for
\* the machine lock
C28_Witness ==
    /\ mutex = "engine" /\ Wants("engine") = "io" /\ lock = "ui"
    /\ Wants("loader") = "machine"

(* C29: the execution thread never steps a machine that has been reset and
   not yet loaded: no step follows a reset directly, and every step finds
   a program in the memory. *)
C29_LoadAtomic ==
    (calls # <<>> /\ calls[1].op = "step") =>
        /\ Len(calls) >= 2 => calls[2].op # "reset"
        /\ pre.memory # FontMemory

\* the first step after a ROM load: at the program start, on the new image
C29_Witness ==
    /\ Len(calls) = 3
    /\ calls[1].op = "step" /\ calls[2].op = "load_rom" /\ calls[3].op = "reset"
    /\ pre.pc = ProgramStart
    /\ pre.memory = load_rom(reset(Machine, 0), calls[2].rom).memory
    /\ calls[1].word = calls[2].rom[1] * 256 + calls[2].rom[2]

(* C30: whenever the Load ROM task has reset the machine and loaded a new
   image, the execution thread later performs a step on it at the program
   start, whatever the earlier steps returned. *)
C30_LoadedRomRuns ==
    (calls # <<>> /\ calls[1].op = "load_rom")
        ~> (calls # <<>> /\ calls[1].op = "step" /\ pre.pc = ProgramStart)

====
